---- MODULE Spec2Model ----
(***************************************************************************)
(* Model of the H2O Kubernetes deployment library:                         *)
(*   - the schema registrar of deployment/src/crd.rs (create, delete,      *)
(*     exists, wait_crd_ready) running against a Kubernetes API server,    *)
(*   - the lifecycle guard predicates has_deletion_stamp and               *)
(*     has_h2o3_finalizer and the reconciliation pass that consults them,  *)
(*   - validation of an H2OSpec by its constructor and by the oneOf rule   *)
(*     of the custom resource definition.                                  *)
(***************************************************************************)
EXTENDS Integers, Sequences, FiniteSets, TLC

(***************************************************************************)
(* Bounds of the model.                                                    *)
(***************************************************************************)
\* operations the client of the schema registrar issues in one run
MaxOps == 2
\* changes the platform and other clients make to the schema object in one run
MaxChanges == 3
\* the timeouts handed to wait_crd_ready have 0..MaxTimeoutSecs whole seconds
MaxTimeoutSecs == 1
\* finalizer lists handed to the lifecycle guard have up to MaxFinalizers entries
MaxFinalizers == 2
\* deletion timestamps handed to the lifecycle guard are 1..MaxStamp
MaxStamp == 2
\* node and cpu counts of the specifications validated are 0..MaxCount
MaxCount == 2
\* entries of an Ingress' load-balancer list are at most MaxEntries
MaxEntries == 2
\* H2O resources of one name the client creates in one run
MaxCreated == 2
\* writes the API server accepts on one H2O resource
MaxWrites == 4

VARIABLES
    \* ---- schema registrar and the platform's schema object
    crd,        \* the CustomResourceDefinition h2os.h2o.ai as the API server holds it
    pc,         \* position of the client: idle, or inside wait_crd_ready
    op,         \* the operation being run or run last
    prevOk,     \* the operation that returned Ok right before the current one
    result,     \* what the last operation returned
    timeout,    \* the Duration argument of the current wait_crd_ready call
    stream,     \* events in flight on the watch subscription
    watchOpen,  \* a watch subscription is open
    opens,      \* subscriptions opened by the current wait_crd_ready call
    consumed,   \* events the current wait_crd_ready call has taken off the stream
    faults,     \* transport calls of the current operation that failed
    lastGet,    \* outcome of the api.get of the current operation
    ended,      \* the stream of the current call has ended (try_next gave None)
    nOps,       \* operations issued so far
    nChanges,   \* platform changes so far
    \* ---- lifecycle guard applied to one H2O resource
    h2o,        \* the metadata of the H2O resource handed to the predicates
    stampOut,   \* what has_deletion_stamp returned for it
    finOut,     \* what has_h2o3_finalizer returned for it
    \* ---- validation of a cluster specification
    vIn,        \* the fields a client supplies
    vStage,     \* input, constructed, serialized, validated
    vSpec,      \* the H2OSpec built by H2OSpec::new
    vKeys,      \* property names of the serialized spec object
    vVerdict,   \* the API server's verdict under the schema of the CRD
    \* ---- one H2O resource, its generated objects and the reconciliation pass
    res,        \* the H2O resource as the API server holds it
    workload,   \* the generated stateful set is present on the platform
    ingress,    \* the generated ingress is present on the platform
    ppc,        \* position of the reconciliation pass
    snap,       \* the resource as the pass fetched it
    observed,   \* the lifecycle state the fetched resource was in
    passLog,    \* what the current pass has done to the platform, in order
    passStatus, \* none, running, ok, failed
    nCreated,   \* H2O resources the client has created so far
    \* ---- the deploy subcommand of the command line
    cliIn,      \* the numbers typed for cluster_size, memory_percentage and cpus
    cliStage,   \* typed, matched, done
    cliOut,     \* error, panic, or the accepted UserDeploymentSpecification
    \* ---- manifest generation
    mIn,        \* the arguments of h2o_stateful_set and h2o_ingress
    mStage,     \* input, substituted, parsed
    mDef,       \* the stateful set definition after the placeholders are replaced
    stsOut,     \* the StatefulSet that h2o_stateful_set returns, or its panic
    ingDef,     \* the ingress definition after the placeholders are replaced
    ingOut,     \* the Ingress that h2o_ingress returns
    \* ---- any_ip applied to one Ingress
    ipIn,       \* the status of the Ingress handed to any_ip
    ipOut       \* what any_ip returned for it

crdVars == <<crd, pc, op, prevOk, result, timeout, stream, watchOpen, opens,
             consumed, faults, lastGet, ended, nOps, nChanges>>

guardVars == <<h2o, stampOut, finOut>>

validVars == <<vIn, vStage, vSpec, vKeys, vVerdict>>

lifeVars == <<res, workload, ingress, ppc, snap, observed, passLog,
              passStatus, nCreated>>

cliVars == <<cliIn, cliStage, cliOut>>

manifestVars == <<mIn, mStage, mDef, stsOut, ingDef, ingOut>>

ipVars == <<ipIn, ipOut>>

genVars == <<cliVars, manifestVars, ipVars>>

vars == <<crdVars, guardVars, validVars, lifeVars, genVars>>

(***************************************************************************)
(* Values                                                                  *)
(***************************************************************************)
RESOURCE_NAME == "h2os.h2o.ai"

\* a condition of the CRD status: type_ and status are strings
Cond(t, s) == [type_ |-> t, status |-> s]

CondTypes == {"NamesAccepted", "Established"}
CondStatuses == {"True", "False"}

\* status: Option<CustomResourceDefinitionStatus>, conditions: Option<Vec<..>>
NoStatus == [some |-> FALSE, condsSome |-> FALSE, conds |-> <<>>]
StatusOf(cs) == [some |-> TRUE, condsSome |-> TRUE, conds |-> cs]
StatusNoConds == [some |-> TRUE, condsSome |-> FALSE, conds |-> <<>>]

\* std::time::Duration: whole seconds and a sub-second part
Duration(s, n) == [secs |-> s, nanos |-> n]
Timeouts == {Duration(s, n) : s \in 0..MaxTimeoutSecs, n \in {0, 500000000}}

\* Duration::as_secs: the whole seconds, the sub-second part is dropped
as_secs(d) == d.secs

\* Result<(), Error> and bool results of the registrar operations
NoResult == [kind |-> "None", val |-> FALSE, secs |-> 0, cause |-> ""]
Ok == [kind |-> "Ok", val |-> FALSE, secs |-> 0, cause |-> ""]
Bool(b) == [kind |-> "Bool", val |-> b, secs |-> 0, cause |-> ""]
\* Error::from_kube_error(e)
KubeError(c) == [kind |-> "Kube", val |-> FALSE, secs |-> 0, cause |-> c]
\* Error::Timeout("H2O Custom Resource not in ready state after {} seconds.")
TimeoutError(s) == [kind |-> "Timeout", val |-> FALSE, secs |-> s, cause |-> ""]

\* WatchEvent<CustomResourceDefinition>
Event(k, st) == [kind |-> k, status |-> st]

\* items of the TryStream: Err(e), Ok(Some(event)), Ok(None)
ItemErr(c) == [tag |-> "Err", cause |-> c, event |-> Event("Bookmark", NoStatus)]
ItemSome(e) == [tag |-> "Some", cause |-> "", event |-> e]
ItemNone == [tag |-> "None", cause |-> "", event |-> Event("Bookmark", NoStatus)]

(***************************************************************************)
(* The registrar's pure parts                                              *)
(***************************************************************************)
\* conds.iter().find(|c| c.type_ == t): index of the first match, 0 if none
RECURSIVE FindFrom(_, _, _)
FindFrom(conds, t, i) ==
    IF i > Len(conds) THEN 0
    ELSE IF conds[i].type_ = t THEN i
    ELSE FindFrom(conds, t, i + 1)

find(conds, t) == FindFrom(conds, t, 1)

\* a wait that looks for the Established condition instead
IsReadyEvent_Established(e) ==
    /\ e.kind = "Modified"
    /\ e.status.some
    /\ e.status.condsSome
    /\ LET i == find(e.status.conds, "Established")
       IN  i # 0 /\ e.status.conds[i].status = "True"

\* the nested `if let` of the loop body: does this event make the wait return
IsReadyEvent(e) ==
    /\ e.kind = "Modified"
    /\ e.status.some
    /\ e.status.condsSome
    /\ LET i == find(e.status.conds, "NamesAccepted")
       IN  i # 0 /\ e.status.conds[i].status = "True"

\* a presence check that takes is_err for is_ok
exists_IsErr(getOutcome) == getOutcome # "found"

\* api.get(RESOURCE_NAME).await.is_ok()
exists(getOutcome) == getOutcome = "found"

\* a loop that reports the sub-second part of the timeout, in milliseconds
LoopStep_Millis(item, t) ==
    CASE item.tag = "Err"  -> [pc |-> "done", result |-> KubeError(item.cause)]
      [] item.tag = "None" ->
            [pc |-> "done",
             result |-> TimeoutError(t.secs * 1000 + t.nanos \div 1000000)]
      [] OTHER ->
            IF IsReadyEvent(item.event)
            THEN [pc |-> "done", result |-> Ok]
            ELSE [pc |-> "loop", result |-> NoResult]

\* a loop that skips a failed read and reads again
LoopStep_SkipErr(item, t) ==
    CASE item.tag = "Err"  -> [pc |-> "loop", result |-> NoResult]
      [] item.tag = "None" -> [pc |-> "done", result |-> TimeoutError(as_secs(t))]
      [] OTHER ->
            IF IsReadyEvent(item.event)
            THEN [pc |-> "done", result |-> Ok]
            ELSE [pc |-> "loop", result |-> NoResult]

\* one turn of `while let Some(status) = stream.try_next().await.map_err(..)?`
\* and the return after the loop
LoopStep(item, t) ==
    CASE item.tag = "Err"  -> [pc |-> "done", result |-> KubeError(item.cause)]
      [] item.tag = "None" -> [pc |-> "done", result |-> TimeoutError(as_secs(t))]
      [] OTHER ->
            IF IsReadyEvent(item.event)
            THEN [pc |-> "done", result |-> Ok]
            ELSE [pc |-> "loop", result |-> NoResult]

(***************************************************************************)
(* The platform: the API server's copy of the schema object                *)
(***************************************************************************)
Absent == [exists |-> FALSE, status |-> NoStatus]
Installed(st) == [exists |-> TRUE, status |-> st]

\* the schema has reached NamesAccepted
CrdReady(c) ==
    /\ c.exists
    /\ c.status.some /\ c.status.condsSome
    /\ \E i \in DOMAIN c.status.conds :
          c.status.conds[i] = Cond("NamesAccepted", "True")

\* the API server keeps one condition per type
UpdateCond(conds, t, s) ==
    LET i == find(conds, t)
    IN  IF i = 0 THEN Append(conds, Cond(t, s))
        ELSE [conds EXCEPT ![i] = Cond(t, s)]

\* an event reaches the subscription only while it is open
Emit(e) == IF watchOpen THEN Append(stream, e) ELSE stream

\* the registrar leaves the other components alone
CrdFrame == UNCHANGED <<guardVars, validVars, lifeVars, genVars>>

CrdInit ==
    /\ crd = Absent
    /\ pc = "idle"
    /\ op = "none"
    /\ prevOk = "none"
    /\ result = NoResult
    /\ timeout = Duration(0, 0)
    /\ stream = <<>>
    /\ watchOpen = FALSE
    /\ opens = 0
    /\ consumed = <<>>
    /\ faults = {}
    /\ lastGet = "none"
    /\ ended = FALSE
    /\ nOps = 0
    /\ nChanges = 0

\* the API server's naming and establishing controllers update the status
PlatformSetCondition(t, s) ==
    /\ CrdFrame
    /\ crd.exists
    /\ nChanges < MaxChanges
    /\ nChanges' = nChanges + 1
    /\ crd' = Installed(StatusOf(UpdateCond(crd.status.conds, t, s)))
    /\ stream' = Emit(Event("Modified", crd'.status))
    /\ UNCHANGED <<pc, op, prevOk, result, timeout, watchOpen, opens,
                   consumed, faults, lastGet, ended, nOps>>

\* another client installs the schema; the object it gets back has a status
\* without conditions
ExternalApply ==
    /\ CrdFrame
    /\ ~crd.exists
    /\ nChanges < MaxChanges
    /\ nChanges' = nChanges + 1
    /\ crd' = Installed(StatusNoConds)
    /\ stream' = Emit(Event("Added", crd'.status))
    /\ UNCHANGED <<pc, op, prevOk, result, timeout, watchOpen, opens,
                   consumed, faults, lastGet, ended, nOps>>

\* another client removes the schema
ExternalRemove ==
    /\ CrdFrame
    /\ crd.exists
    /\ nChanges < MaxChanges
    /\ nChanges' = nChanges + 1
    /\ crd' = Absent
    /\ stream' = Emit(Event("Deleted", crd.status))
    /\ UNCHANGED <<pc, op, prevOk, result, timeout, watchOpen, opens,
                   consumed, faults, lastGet, ended, nOps>>

\* the API server sends a bookmark or an error object on the subscription
PlatformNotice(k) ==
    /\ CrdFrame
    /\ watchOpen
    /\ nChanges < MaxChanges
    /\ nChanges' = nChanges + 1
    /\ stream' = Append(stream, Event(k, NoStatus))
    /\ UNCHANGED <<crd, pc, op, prevOk, result, timeout, watchOpen, opens,
                   consumed, faults, lastGet, ended, nOps>>

(***************************************************************************)
(* The registrar's operations                                              *)
(***************************************************************************)
\* what api.get can answer in the current state of the platform
GetOutcomes == (IF crd.exists THEN {"found"} ELSE {"notfound"}) \cup {"fault"}

\* the other components at rest
GuardIdle ==
    /\ h2o = [deletion_timestamp |-> [some |-> FALSE, time |-> 0],
              finalizers |-> [some |-> FALSE, list |-> <<>>]]
    /\ stampOut = [called |-> FALSE, val |-> FALSE]
    /\ finOut = [called |-> FALSE, val |-> FALSE]

ValidIdle ==
    /\ vIn = [nodes |-> 1, version |-> [some |-> FALSE, tag |-> ""],
              cpu |-> 1, memory |-> "1Gi",
              memory_percentage |-> [some |-> FALSE, val |-> 0],
              custom_image |-> [some |-> FALSE, image |-> "",
                                command |-> [some |-> FALSE, val |-> ""]]]
    /\ vStage = "idle"
    /\ vSpec = vIn
    /\ vKeys = {}
    /\ vVerdict = "none"

LifeIdle ==
    /\ res = [exists |-> FALSE, uid |-> 0, version |-> 0,
              meta |-> [deletion_timestamp |-> [some |-> FALSE, time |-> 0],
                        finalizers |-> [some |-> FALSE, list |-> <<>>]]]
    /\ workload = FALSE
    /\ ingress = FALSE
    /\ ppc = "idle"
    /\ snap = res
    /\ observed = "none"
    /\ passLog = <<>>
    /\ passStatus = "none"
    /\ nCreated = 0

CliIdle ==
    /\ cliIn = [cluster_size |-> [neg |-> FALSE, digits |-> <<1>>],
                memory_percentage |-> [neg |-> FALSE, digits |-> <<5, 0>>],
                cpus |-> [neg |-> FALSE, digits |-> <<1>>]]
    /\ cliStage = "idle"
    /\ cliOut = [kind |-> "none", num_h2o_nodes |-> <<0, 0>>,
                 memory_percentage |-> 0, num_cpu |-> <<0, 0>>]

ManifestIdle ==
    /\ mIn = [name |-> <<>>, namespace |-> <<>>, nodes |-> <<0, 0>>,
              memory_percentage |-> 0, memory |-> <<>>, num_cpu |-> <<0, 0>>]
    /\ mStage = "idle"
    /\ mDef = [name |-> <<>>]
    /\ stsOut = [kind |-> "none"]
    /\ ingDef = [name |-> <<>>]
    /\ ingOut = [kind |-> "none"]

IpIdle ==
    /\ ipIn = [some |-> FALSE, lbSome |-> FALSE, listSome |-> FALSE, list |-> <<>>]
    /\ ipOut = [called |-> FALSE, some |-> FALSE, ip |-> ""]

\* the command line, the manifest generator and any_ip at rest
GenIdle == CliIdle /\ ManifestIdle /\ IpIdle

\* bookkeeping common to the start of every operation
StartOp(name) ==
    /\ pc \in {"idle", "done"}
    /\ nOps < MaxOps
    /\ nOps' = nOps + 1
    /\ op' = name
    /\ prevOk' = IF result.kind = "Ok" THEN op ELSE "none"
    /\ consumed' = <<>>
    /\ opens' = 0
    /\ ended' = FALSE

\* create: api.create(..).await.map_err(Error::from_kube_error)?; Ok(())
Create ==
    /\ CrdFrame
    /\ StartOp("create")
    /\ lastGet' = "none"
    /\ pc' = "done"
    /\ \E outcome \in {"ok", "fault"} :
          IF outcome = "fault"
          THEN /\ faults' = {"create"}
               /\ result' = KubeError("transport")
               /\ UNCHANGED crd
          ELSE /\ faults' = {}
               /\ IF crd.exists
                  THEN /\ result' = KubeError("AlreadyExists")
                       /\ UNCHANGED crd
                  ELSE /\ result' = Ok
                       /\ crd' = Installed(NoStatus)
    /\ UNCHANGED <<timeout, stream, watchOpen, nChanges>>

\* delete: the result of api.delete is handed back, Ok(_) as Ok(())
Delete ==
    /\ CrdFrame
    /\ StartOp("delete")
    /\ lastGet' = "none"
    /\ pc' = "done"
    /\ \E outcome \in {"ok", "fault"} :
          IF outcome = "fault"
          THEN /\ faults' = {"delete"}
               /\ result' = KubeError("transport")
               /\ UNCHANGED crd
          ELSE /\ faults' = {}
               /\ IF crd.exists
                  THEN /\ result' = Ok
                       /\ crd' = Absent
                  ELSE /\ result' = KubeError("NotFound")
                       /\ UNCHANGED crd
    /\ UNCHANGED <<timeout, stream, watchOpen, nChanges>>

\* exists as an operation of its own
Exists ==
    /\ CrdFrame
    /\ StartOp("exists")
    /\ pc' = "done"
    /\ \E g \in GetOutcomes :
          /\ lastGet' = g
          /\ faults' = IF g = "fault" THEN {"get"} ELSE {}
          /\ result' = Bool(exists(g))
    /\ UNCHANGED <<crd, timeout, stream, watchOpen, nChanges>>

\* wait_crd_ready is entered with a timeout
CallWait ==
    /\ CrdFrame
    /\ StartOp("wait")
    /\ \E t \in Timeouts : timeout' = t
    /\ pc' = "check"
    /\ result' = NoResult
    /\ faults' = {}
    /\ lastGet' = "none"
    /\ UNCHANGED <<crd, stream, watchOpen, nChanges>>

\* if exists(client.clone()).await { return Ok(()); }
WaitCheck ==
    /\ CrdFrame
    /\ pc = "check"
    /\ \E g \in GetOutcomes :
          /\ lastGet' = g
          /\ faults' = IF g = "fault" THEN faults \cup {"get"} ELSE faults
          /\ IF exists(g)
             THEN pc' = "done" /\ result' = Ok
             ELSE pc' = "open" /\ result' = NoResult
    /\ UNCHANGED <<crd, op, prevOk, timeout, stream, watchOpen, opens,
                   consumed, ended, nOps, nChanges>>

\* api.watch(&lp, "0").await.map_err(Error::from_kube_error)?
\* a watch from resource version "0" first replays the object as Added
WaitOpen ==
    /\ CrdFrame
    /\ pc = "open"
    /\ \E outcome \in {"ok", "fault"} :
          IF outcome = "fault"
          THEN /\ faults' = faults \cup {"watch"}
               /\ pc' = "done"
               /\ result' = KubeError("transport")
               /\ UNCHANGED <<stream, watchOpen, opens>>
          ELSE /\ pc' = "loop"
               /\ watchOpen' = TRUE
               /\ opens' = opens + 1
               /\ stream' = IF crd.exists
                            THEN <<Event("Added", crd.status)>>
                            ELSE <<>>
               /\ UNCHANGED <<faults, result>>
    /\ UNCHANGED <<crd, op, prevOk, timeout, consumed, lastGet, ended,
                   nOps, nChanges>>

\* the effect of one stream item on the call
Take(item) ==
    LET r == LoopStep(item, timeout)
    IN  /\ pc' = r.pc
        /\ result' = r.result
        /\ watchOpen' = (r.pc = "loop")
        /\ stream' = IF r.pc # "loop" THEN <<>>
                      ELSE IF item.tag = "Some" THEN Tail(stream)
                      ELSE stream
        /\ consumed' = IF item.tag = "Some" THEN Append(consumed, item.event)
                       ELSE consumed
        /\ faults' = IF item.tag = "Err" THEN faults \cup {"next"} ELSE faults
        /\ ended' = (item.tag = "None")
        /\ UNCHANGED <<crd, op, prevOk, timeout, opens, lastGet, nOps, nChanges>>

\* try_next yields the next event
WaitNextEvent ==
    /\ CrdFrame
    /\ pc = "loop"
    /\ stream # <<>>
    /\ Take(ItemSome(Head(stream)))

\* try_next yields a transport error
WaitNextFault ==
    /\ CrdFrame
    /\ pc = "loop"
    /\ Take(ItemErr("transport"))

\* try_next yields None: the deadline elapsed or the platform closed the stream
WaitStreamEnd ==
    /\ CrdFrame
    /\ pc = "loop"
    /\ Take(ItemNone)

Next ==
    \/ \E t \in CondTypes, s \in CondStatuses : PlatformSetCondition(t, s)
    \/ ExternalApply
    \/ ExternalRemove
    \/ \E k \in {"Bookmark", "Error"} : PlatformNotice(k)
    \/ Create
    \/ Delete
    \/ Exists
    \/ CallWait
    \/ WaitCheck
    \/ WaitOpen
    \/ WaitNextEvent
    \/ WaitNextFault
    \/ WaitStreamEnd

Init == CrdInit /\ GuardIdle /\ ValidIdle /\ LifeIdle /\ GenIdle

Spec == Init /\ [][Next]_vars

(***************************************************************************)
(* Properties of the schema registrar                                      *)
(***************************************************************************)
\* the event carries a NamesAccepted condition with status True
ReportsAccepted(e) ==
    /\ e.status.some /\ e.status.condsSome
    /\ \E j \in DOMAIN e.status.conds :
          e.status.conds[j] = Cond("NamesAccepted", "True")

\* the event is a modification whose first NamesAccepted condition is True
ModifiedReportsAccepted(e) ==
    /\ e.kind = "Modified"
    /\ e.status.some /\ e.status.condsSome
    /\ \E j \in DOMAIN e.status.conds :
          /\ e.status.conds[j] = Cond("NamesAccepted", "True")
          /\ \A k \in 1..(j - 1) : e.status.conds[k].type_ # "NamesAccepted"

\* C1 as stated: whatever notification reports NamesAccepted = True, the wait
\* returns Ok at that notification: it is the last one consumed and the call
\* is over with Ok. Stated for the calls whose presence check was answered
\* "not found", so that no transport fault is involved.
C1_AnyNotificationReturnsOk ==
    (op = "wait" /\ lastGet = "notfound") =>
        \A i \in DOMAIN consumed :
            ReportsAccepted(consumed[i]) =>
                i = Len(consumed) /\ pc = "done" /\ result = Ok

\* C1 amended: a Modified notification whose first NamesAccepted condition is
\* True ends the wait with Ok at that notification: nothing is consumed after
\* it and the call does not end in Timeout.
C1_ModifiedNotificationReturnsOk ==
    op = "wait" =>
        \A i \in DOMAIN consumed :
            ModifiedReportsAccepted(consumed[i]) =>
                i = Len(consumed) /\ pc = "done" /\ result = Ok

\* a wait that consumed other notifications first and returned Ok on a
\* Modified notification reporting NamesAccepted = True
C1_Witness ==
    /\ op = "wait" /\ pc = "done" /\ result = Ok
    /\ Len(consumed) >= 2
    /\ ModifiedReportsAccepted(consumed[Len(consumed)])

\* C2: when wait_crd_ready, called right after a successful create, returns
\* Ok, the schema has reached NamesAccepted.
C2_OkOnlyWhenReady ==
    [][(/\ op' = "wait" /\ prevOk' = "create"
        /\ pc # "done" /\ pc' = "done"
        /\ result'.kind = "Ok") => CrdReady(crd')]_vars

\* C3: once the stream has ended the call is over, and its result is the
\* Timeout error carrying the whole seconds of the configured duration.
C3_StreamEndIsTimeout ==
    ended => /\ op = "wait"
             /\ pc = "done"
             /\ ~watchOpen
             /\ result = TimeoutError(timeout.secs)

\* a stream that delivered a notification and then ended, under a timeout
\* with whole seconds and a sub-second part
C3_Witness ==
    /\ ended /\ result.kind = "Timeout"
    /\ consumed # <<>>
    /\ timeout.secs > 0 /\ timeout.nanos > 0

\* C4: when the presence check of wait_crd_ready finds the schema, the call
\* is over with Ok and has opened no subscription nor consumed any event.
C4_InstalledShortCircuit ==
    (op = "wait" /\ lastGet = "found") =>
        /\ pc = "done"
        /\ result = Ok
        /\ opens = 0
        /\ ~watchOpen
        /\ consumed = <<>>

\* wait_crd_ready has found the schema installed
C4_Witness == op = "wait" /\ lastGet = "found" /\ pc = "done" /\ crd.exists

\* C5: a transport fault while opening the subscription or reading it ends
\* the call with that fault as a kube error; no call opens a second
\* subscription.
C5_FaultPropagates ==
    /\ opens <= 1
    /\ (op = "wait" /\ faults \cap {"watch", "next"} # {}) =>
          /\ pc = "done"
          /\ result = KubeError("transport")
          /\ ~watchOpen

\* a read of the subscription failed after a notification had been consumed
C5_Witness ==
    /\ op = "wait" /\ "next" \in faults /\ consumed # <<>>
    /\ result.kind = "Kube"

\* C6: an operation in which a transport call failed returns an error.
C6_NoFaultSwallowed ==
    (pc = "done" /\ faults # {}) => result.kind \in {"Kube", "Timeout"}

(***************************************************************************)
(* Lifecycle guard: has_deletion_stamp and has_h2o3_finalizer              *)
(***************************************************************************)
\* finalizer::FINALIZER_NAME, the token this operator reserves
FINALIZER_NAME == "h2o3.h2o.ai"

\* Option values of the metadata
None == [some |-> FALSE, time |-> 0]
SomeTime(t) == [some |-> TRUE, time |-> t]
NoList == [some |-> FALSE, list |-> <<>>]
SomeList(l) == [some |-> TRUE, list |-> l]

\* ObjectMeta of an H2O resource, as far as the predicates read it
Meta(ts, fs) == [deletion_timestamp |-> ts, finalizers |-> fs]

\* Vec::contains: some element equals x
RECURSIVE contains(_, _)
contains(list, x) ==
    IF list = <<>> THEN FALSE
    ELSE IF Head(list) = x THEN TRUE
    ELSE contains(Tail(list), x)

\* a guard that takes is_none for is_some
has_deletion_stamp_IsNone(r) == ~r.deletion_timestamp.some

\* h2o.metadata.deletion_timestamp.is_some()
has_deletion_stamp(r) == r.deletion_timestamp.some

\* a guard satisfied by any finalizer
has_h2o3_finalizer_Any(r) ==
    IF r.finalizers.some THEN r.finalizers.list # <<>> ELSE FALSE

\* match h2o.metadata.finalizers.as_ref() { Some(f) => f.contains(..), None => false }
has_h2o3_finalizer(r) ==
    IF r.finalizers.some
    THEN contains(r.finalizers.list, FINALIZER_NAME)
    ELSE FALSE

\* finalizer names a resource may carry: the reserved token, near misses of
\* it and a foreign one
FinalizerNames ==
    {FINALIZER_NAME, "h2o3.h2o.ai/other", "H2O3.H2O.AI", "kubernetes"}

RECURSIVE SeqsUpTo(_, _)
SeqsUpTo(S, n) ==
    IF n = 0 THEN {<<>>}
    ELSE LET shorter == SeqsUpTo(S, n - 1)
         IN  shorter \cup {Append(q, x) : q \in shorter, x \in S}

GuardInputs ==
    {Meta(ts, fs) :
        ts \in {None} \cup {SomeTime(t) : t \in 1..MaxStamp},
        fs \in {NoList} \cup {SomeList(l) : l \in SeqsUpTo(FinalizerNames, MaxFinalizers)}}

Called(b) == [called |-> TRUE, val |-> b]

GuardInit ==
    /\ h2o \in GuardInputs
    /\ stampOut = [called |-> FALSE, val |-> FALSE]
    /\ finOut = [called |-> FALSE, val |-> FALSE]

CallHasDeletionStamp ==
    /\ ~stampOut.called
    /\ stampOut' = Called(has_deletion_stamp(h2o))
    /\ UNCHANGED <<h2o, finOut, crdVars, validVars, lifeVars, genVars>>

CallHasH2o3Finalizer ==
    /\ ~finOut.called
    /\ finOut' = Called(has_h2o3_finalizer(h2o))
    /\ UNCHANGED <<h2o, stampOut, crdVars, validVars, lifeVars, genVars>>

GuardNext ==
    \/ CallHasDeletionStamp
    \/ CallHasH2o3Finalizer

\* the registrar at rest
CrdIdle == CrdInit

InitGuard == GuardInit /\ CrdIdle /\ ValidIdle /\ LifeIdle /\ GenIdle

SpecGuard == InitGuard /\ [][GuardNext]_vars

\* C9: has_deletion_stamp answers true exactly when a deletion timestamp is
\* set, and has_h2o3_finalizer answers true exactly when the finalizer list is
\* present and one of its entries is the reserved token, each whatever the
\* other metadata field holds.
C9_GuardPredicates ==
    /\ stampOut.called => (stampOut.val <=> h2o.deletion_timestamp.some)
    /\ finOut.called =>
          (finOut.val <=>
              /\ h2o.finalizers.some
              /\ \E i \in DOMAIN h2o.finalizers.list :
                    h2o.finalizers.list[i] = FINALIZER_NAME)

\* both predicates have answered for a resource without deletion timestamp
\* whose finalizer list holds a near miss first and the reserved token second
C9_Witness ==
    /\ stampOut = Called(FALSE)
    /\ finOut = Called(TRUE)
    /\ h2o.finalizers.list = <<"h2o3.h2o.ai/other", FINALIZER_NAME>>

(***************************************************************************)
(* Validation of a cluster specification: H2OSpec::new, its serialization  *)
(* and the openAPIV3Schema of H2O_RESOURCE_TEMPLATE                        *)
(***************************************************************************)
NoString == [some |-> FALSE, tag |-> ""]
SomeString(v) == [some |-> TRUE, tag |-> v]
NoPercentage == [some |-> FALSE, val |-> 0]
SomePercentage(v) == [some |-> TRUE, val |-> v]
NoCommand == [some |-> FALSE, val |-> ""]
NoImage == [some |-> FALSE, image |-> "", command |-> NoCommand]
\* CustomImage::new(image, command)
CustomImage_new(image, command) == [some |-> TRUE, image |-> image, command |-> command]

\* Resources::new and H2OSpec::new: the arguments are stored as given
H2OSpec_new(nodes, version, cpu, memory, memory_percentage, custom_image) ==
    [nodes |-> nodes, version |-> version, cpu |-> cpu, memory |-> memory,
     memory_percentage |-> memory_percentage, custom_image |-> custom_image]

\* serde: property names of the serialized spec; None fields are skipped and
\* custom_image is renamed customImage
SpecKeys(sp) ==
    {"nodes", "resources"}
    \cup (IF sp.version.some THEN {"version"} ELSE {})
    \cup (IF sp.custom_image.some THEN {"customImage"} ELSE {})

\* the two alternatives of the schema's oneOf, each a list of required names
OneOfBranches == {{"version"}, {"custom_image"}}

\* oneOf: exactly one alternative is satisfied by the object
OneOf(keys) == Cardinality({b \in OneOfBranches : b \subseteq keys}) = 1

\* the rules of resources: cpu minimum 1, memoryPercentage within 1..100
ResourcesValid(sp) ==
    /\ sp.cpu >= 1
    /\ sp.memory_percentage.some =>
          (sp.memory_percentage.val >= 1 /\ sp.memory_percentage.val <= 100)

\* the schema of spec: required nodes and resources, oneOf, resources
SchemaAccepts(sp, keys) ==
    /\ {"nodes", "resources"} \subseteq keys
    /\ OneOf(keys)
    /\ ResourcesValid(sp)

ValidInputs ==
    {H2OSpec_new(n, v, c, "1Gi", mp, ci) :
        n \in 0..MaxCount,
        v \in {NoString, SomeString("3.30.0.1")},
        c \in 0..MaxCount,
        mp \in {NoPercentage} \cup {SomePercentage(x) : x \in {0, 1, 100, 101}},
        ci \in {NoImage, CustomImage_new("h2oai/custom:1", NoCommand)}}

ValidInit ==
    /\ vIn \in ValidInputs
    /\ vStage = "input"
    /\ vSpec = vIn
    /\ vKeys = {}
    /\ vVerdict = "none"

\* the client builds the H2OSpec
Construct ==
    /\ vStage = "input"
    /\ vSpec' = H2OSpec_new(vIn.nodes, vIn.version, vIn.cpu, vIn.memory,
                            vIn.memory_percentage, vIn.custom_image)
    /\ vStage' = "constructed"
    /\ UNCHANGED <<vIn, vKeys, vVerdict, crdVars, guardVars, lifeVars, genVars>>

\* the H2O resource is serialized for submission
Serialize ==
    /\ vStage = "constructed"
    /\ vKeys' = SpecKeys(vSpec)
    /\ vStage' = "serialized"
    /\ UNCHANGED <<vIn, vSpec, vVerdict, crdVars, guardVars, lifeVars, genVars>>

\* the API server validates the object against the schema of the CRD
Validate ==
    /\ vStage = "serialized"
    /\ vVerdict' = IF SchemaAccepts(vSpec, vKeys) THEN "accepted" ELSE "rejected"
    /\ vStage' = "validated"
    /\ UNCHANGED <<vIn, vSpec, vKeys, crdVars, guardVars, lifeVars, genVars>>

ValidNext ==
    \/ Construct
    \/ Serialize
    \/ Validate

InitValidation == ValidInit /\ CrdIdle /\ GuardIdle /\ LifeIdle /\ GenIdle

SpecValidation == InitValidation /\ [][ValidNext]_vars

\* how many of version and customImage the client set
ImagesSet(sp) ==
    (IF sp.version.some THEN 1 ELSE 0) + (IF sp.custom_image.some THEN 1 ELSE 0)

\* C10: a specification whose node count and resources are in range is accepted when exactly
\* one of version and customImage is set and rejected when neither or both are.
C10_ExactlyOneImageSource ==
    (vStage = "validated" /\ vIn.nodes >= 1 /\ ResourcesValid(vIn)) =>
        (vVerdict = "accepted" <=> ImagesSet(vIn) = 1)

(***************************************************************************)
(* One H2O resource on the platform and the reconciliation pass that       *)
(* consults the lifecycle guard                                            *)
(***************************************************************************)
\* the H2O resource as the API server holds it: uid tells incarnations of the
\* same name apart, version is the resourceVersion
Gone == [exists |-> FALSE, uid |-> 0, version |-> 0, meta |-> Meta(None, NoList)]
Live(u, v, m) == [exists |-> TRUE, uid |-> u, version |-> v, meta |-> m]

\* the reserved token is on the resource
OwnsFinalizer(m) ==
    m.finalizers.some /\ \E i \in DOMAIN m.finalizers.list :
                             m.finalizers.list[i] = FINALIZER_NAME

\* the states of the lifecycle, read off the metadata
LifeState(r) ==
    IF ~r.exists THEN "Gone"
    ELSE IF OwnsFinalizer(r.meta)
         THEN (IF r.meta.deletion_timestamp.some THEN "Terminating" ELSE "Active")
         ELSE (IF r.meta.deletion_timestamp.some THEN "Released" ELSE "Fresh")

AddFinalizer(m) ==
    [m EXCEPT !.finalizers = SomeList(Append(m.finalizers.list, FINALIZER_NAME))]

RemoveFinalizerFrom(m) ==
    [m EXCEPT !.finalizers.list =
        SelectSeq(m.finalizers.list, LAMBDA f : f # FINALIZER_NAME)]

\* what a pass that tears down does to the platform, in order
TeardownOrder == <<"teardown_workload", "teardown_ingress", "remove_finalizer">>

\* the API server accepts a write based on the resource as it now is
WriteAccepted == res.exists /\ res = snap /\ res.version < MaxWrites

LifeInit ==
    /\ res = Gone
    /\ workload = FALSE
    /\ ingress = FALSE
    /\ ppc = "idle"
    /\ snap = Gone
    /\ observed = "none"
    /\ passLog = <<>>
    /\ passStatus = "none"
    /\ nCreated = 0

LifeFrame == UNCHANGED <<crdVars, guardVars, validVars, genVars>>

\* a client submits the H2O resource
ClientCreate ==
    /\ LifeFrame
    /\ ~res.exists
    /\ nCreated < MaxCreated
    /\ nCreated' = nCreated + 1
    /\ res' = Live(nCreated + 1, 0, Meta(None, NoList))
    /\ UNCHANGED <<workload, ingress, ppc, snap, observed, passLog, passStatus>>

\* an external delete request: the API server stamps the resource
ExternalDelete ==
    /\ LifeFrame
    /\ res.exists
    /\ ~res.meta.deletion_timestamp.some
    /\ res' = [res EXCEPT !.meta.deletion_timestamp = SomeTime(1),
                          !.version = res.version + 1]
    /\ UNCHANGED <<workload, ingress, ppc, snap, observed, passLog, passStatus,
                   nCreated>>

\* the API server removes a stamped resource once no finalizers remain
PlatformCollect ==
    /\ LifeFrame
    /\ res.exists
    /\ res.meta.deletion_timestamp.some
    /\ res.meta.finalizers.list = <<>>
    /\ res' = Gone
    /\ UNCHANGED <<workload, ingress, ppc, snap, observed, passLog, passStatus,
                   nCreated>>

\* a pass fetches the resource and asks the lifecycle guard
PassStart ==
    /\ LifeFrame
    /\ ppc = "idle"
    /\ res.exists
    /\ snap' = res
    /\ observed' = LifeState(res)
    /\ passLog' = <<>>
    /\ passStatus' = "running"
    /\ ppc' = IF has_deletion_stamp(res.meta) /\ has_h2o3_finalizer(res.meta)
              THEN "teardown_workload"
              ELSE "ensure_finalizer"
    /\ UNCHANGED <<res, workload, ingress, nCreated>>

\* teardown of the generated stateful set; an absent one is tolerated
TeardownWorkload ==
    /\ LifeFrame
    /\ ppc = "teardown_workload"
    /\ workload' = FALSE
    /\ passLog' = Append(passLog, "teardown_workload")
    /\ ppc' = "teardown_ingress"
    /\ UNCHANGED <<res, ingress, snap, observed, passStatus, nCreated>>

\* teardown of the generated ingress; an absent one is tolerated
TeardownIngress ==
    /\ LifeFrame
    /\ ppc = "teardown_ingress"
    /\ ingress' = FALSE
    /\ passLog' = Append(passLog, "teardown_ingress")
    /\ ppc' = "remove_finalizer"
    /\ UNCHANGED <<res, workload, snap, observed, passStatus, nCreated>>

\* the pass removes the finalizer and returns
RemoveFinalizer ==
    /\ LifeFrame
    /\ ppc = "remove_finalizer"
    /\ ppc' = "idle"
    /\ IF WriteAccepted
       THEN /\ res' = [res EXCEPT !.meta = RemoveFinalizerFrom(res.meta),
                                  !.version = res.version + 1]
            /\ passLog' = Append(passLog, "remove_finalizer")
            /\ passStatus' = "ok"
       ELSE /\ passStatus' = "failed"
            /\ UNCHANGED <<res, passLog>>
    /\ UNCHANGED <<workload, ingress, snap, observed, nCreated>>

\* the first pass over a fresh resource adds the finalizer
EnsureFinalizer ==
    /\ LifeFrame
    /\ ppc = "ensure_finalizer"
    /\ IF ~has_h2o3_finalizer(snap.meta) /\ ~has_deletion_stamp(snap.meta)
       THEN IF WriteAccepted
            THEN /\ res' = [res EXCEPT !.meta = AddFinalizer(res.meta),
                                       !.version = res.version + 1]
                 /\ passLog' = Append(passLog, "add_finalizer")
                 /\ ppc' = "submit_workload"
                 /\ UNCHANGED passStatus
            ELSE /\ ppc' = "idle"
                 /\ passStatus' = "failed"
                 /\ UNCHANGED <<res, passLog>>
       ELSE /\ ppc' = "submit_workload"
            /\ UNCHANGED <<res, passLog, passStatus>>
    /\ UNCHANGED <<workload, ingress, snap, observed, nCreated>>

\* the regenerated stateful set is created or replaced
SubmitWorkload ==
    /\ LifeFrame
    /\ ppc = "submit_workload"
    /\ workload' = TRUE
    /\ passLog' = Append(passLog, "submit_workload")
    /\ ppc' = "submit_ingress"
    /\ UNCHANGED <<res, ingress, snap, observed, passStatus, nCreated>>

\* the regenerated ingress is created or replaced
SubmitIngress ==
    /\ LifeFrame
    /\ ppc = "submit_ingress"
    /\ ingress' = TRUE
    /\ passLog' = Append(passLog, "submit_ingress")
    /\ ppc' = "idle"
    /\ passStatus' = "ok"
    /\ UNCHANGED <<res, workload, snap, observed, nCreated>>

\* a platform error aborts the pass where it stands
PassFault ==
    /\ LifeFrame
    /\ ppc # "idle"
    /\ ppc' = "idle"
    /\ passStatus' = "failed"
    /\ UNCHANGED <<res, workload, ingress, snap, observed, passLog, nCreated>>

LifeNext ==
    \/ ClientCreate
    \/ ExternalDelete
    \/ PlatformCollect
    \/ PassStart
    \/ TeardownWorkload
    \/ TeardownIngress
    \/ RemoveFinalizer
    \/ EnsureFinalizer
    \/ SubmitWorkload
    \/ SubmitIngress
    \/ PassFault

InitLifecycle == LifeInit /\ CrdIdle /\ GuardIdle /\ ValidIdle /\ GenIdle

SpecLifecycle == InitLifecycle /\ [][LifeNext]_vars

RECURSIVE IsPrefix(_, _)
IsPrefix(a, b) ==
    IF a = <<>> THEN TRUE
    ELSE IF b = <<>> THEN FALSE
    ELSE Head(a) = Head(b) /\ IsPrefix(Tail(a), Tail(b))

\* C8: a pass that fetched the resource with deletion timestamp and reserved
\* finalizer does teardown of the workload, teardown of the ingress and removal
\* of the finalizer in that order and nothing else, all three once it has
\* completed; it submits no manifest.
C8_TerminatingPassTearsDown ==
    observed = "Terminating" =>
        /\ IsPrefix(passLog, TeardownOrder)
        /\ passStatus = "ok" => passLog = TeardownOrder
        /\ ppc \notin {"ensure_finalizer", "submit_workload", "submit_ingress"}

\* a completed pass over a Terminating resource of the second incarnation
C8_Witness ==
    /\ observed = "Terminating"
    /\ passStatus = "ok"
    /\ passLog = TeardownOrder
    /\ snap.uid = MaxCreated

(***************************************************************************)
(* Numbers as the program holds them.  A number typed on a command line or *)
(* written into a manifest is a text: a sign and decimal digits.  A parsed *)
(* integer is a little-endian sequence of 16-bit limbs, so that u32 and    *)
(* i64 values keep their width.                                            *)
(***************************************************************************)
Text(neg, digits) == [neg |-> neg, digits |-> digits]

LimbBase == 2^16

Zeros(n) == [i \in 1..n |-> 0]

\* limbs * 10 + carry, limb by limb from the lowest; the carry out of the top
\* limb is the overflow
RECURSIVE MulAddFrom(_, _, _)
MulAddFrom(limbs, i, carry) ==
    IF i > Len(limbs) THEN [limbs |-> limbs, carry |-> carry]
    ELSE LET t == limbs[i] * 10 + carry
         IN  MulAddFrom([limbs EXCEPT ![i] = t % LimbBase], i + 1, t \div LimbBase)

\* the checked_mul(10) and checked_add(digit) of from_str_radix, digit by digit
RECURSIVE ParseFrom(_, _, _)
ParseFrom(digits, i, acc) ==
    IF i > Len(digits) THEN [ok |-> TRUE, limbs |-> acc]
    ELSE LET r == MulAddFrom(acc, 1, digits[i])
         IN  IF r.carry > 0 THEN [ok |-> FALSE, limbs |-> acc]
             ELSE ParseFrom(digits, i + 1, r.limbs)

ParseMagnitude(digits, n) ==
    IF digits = <<>> THEN [ok |-> FALSE, limbs |-> Zeros(n)]
    ELSE ParseFrom(digits, 1, Zeros(n))

IsZero(limbs) == \A i \in DOMAIN limbs : limbs[i] = 0

\* only the lowest limb is used
IsSmall(limbs) == \A i \in DOMAIN limbs : i > 1 => limbs[i] = 0

\* str::parse::<i64>
parse_i64(t) ==
    LET m == ParseMagnitude(t.digits, 4)
        fits == \/ m.limbs[4] < 2^15
                \/ t.neg /\ m.limbs[4] = 2^15 /\ IsZero(SubSeq(m.limbs, 1, 3))
    IN  [ok |-> m.ok /\ fits, neg |-> t.neg /\ ~IsZero(m.limbs), limbs |-> m.limbs]

\* str::parse::<u32>: a '-' is no digit of an unsigned number
parse_u32(t) ==
    LET m == ParseMagnitude(t.digits, 2)
    IN  [ok |-> ~t.neg /\ m.ok, neg |-> FALSE, limbs |-> m.limbs]

\* str::parse::<u8>
parse_u8(t) ==
    LET m == ParseMagnitude(t.digits, 1)
    IN  [ok |-> ~t.neg /\ m.ok /\ m.limbs[1] <= 255, neg |-> FALSE, limbs |-> m.limbs]

\* number < k and number > k for an i64 and a small k >= 0
LessThan(num, k) == num.neg \/ (IsSmall(num.limbs) /\ num.limbs[1] < k)
GreaterThan(num, k) == ~num.neg /\ (~IsSmall(num.limbs) \/ num.limbs[1] > k)

\* divide the limbs by 10 from the highest limb down: quotient and remainder
RECURSIVE DivTenFrom(_, _, _)
DivTenFrom(limbs, i, rem) ==
    IF i < 1 THEN [limbs |-> limbs, rem |-> rem]
    ELSE LET t == rem * LimbBase + limbs[i]
         IN  DivTenFrom([limbs EXCEPT ![i] = t \div 10], i - 1, t % 10)

\* u32::to_string: the decimal digits, highest first, no leading zero
RECURSIVE DigitsOf(_)
DigitsOf(limbs) ==
    LET q == DivTenFrom(limbs, Len(limbs), 0)
    IN  IF IsZero(q.limbs) THEN <<q.rem>>
        ELSE Append(DigitsOf(q.limbs), q.rem)

to_string(limbs) == Text(FALSE, DigitsOf(limbs))

\* an unsigned integer of n limbs from a small natural number
U(v, n) == [i \in 1..n |-> IF i = 1 THEN v ELSE 0]

(***************************************************************************)
(* The deploy subcommand: the validators of build_app and the extraction   *)
(* of the numbers in get_command                                           *)
(***************************************************************************)
\* validate_int_greater_than_zero: parse::<i64>().unwrap(), then number < 1
validate_int_greater_than_zero(input) ==
    LET number == parse_i64(input)
    IN  IF ~number.ok THEN "panic"
        ELSE IF LessThan(number, 1) THEN "err"
        ELSE "ok"

\* validate_percentage: parse::<i64>().unwrap(), then number < 0 || number > 100
validate_percentage(input) ==
    LET number == parse_i64(input)
    IN  IF ~number.ok THEN "panic"
        ELSE IF LessThan(number, 0) \/ GreaterThan(number, 100) THEN "err"
        ELSE "ok"

\* build_app: the validator each numeric argument of deploy is given;
\* cpus is given none
ArgVerdicts(args) ==
    {validate_int_greater_than_zero(args.cluster_size),
     validate_percentage(args.memory_percentage)}

CliNone == [kind |-> "none", num_h2o_nodes |-> U(0, 2), memory_percentage |-> 0,
            num_cpu |-> U(0, 2)]
CliError == [CliNone EXCEPT !.kind = "error"]
CliPanic == [CliNone EXCEPT !.kind = "panic"]
\* UserDeploymentSpecification::new, as far as its numbers go
UserDeploymentSpecification_new(memory_percentage, num_cpu, num_h2o_nodes) ==
    [kind |-> "accepted", num_h2o_nodes |-> num_h2o_nodes,
     memory_percentage |-> memory_percentage, num_cpu |-> num_cpu]

\* get_command for deploy: extract_num panics on a text that does not parse
get_command(args) ==
    LET cluster_size == parse_u32(args.cluster_size)
        jvm_memory_percentage == parse_u8(args.memory_percentage)
        num_cpus == parse_u32(args.cpus)
    IN  IF cluster_size.ok /\ jvm_memory_percentage.ok /\ num_cpus.ok
        THEN UserDeploymentSpecification_new(jvm_memory_percentage.limbs[1],
                                             num_cpus.limbs, cluster_size.limbs)
        ELSE CliPanic

\* the texts of the small numbers
SmallTexts == {to_string(U(v, 2)) : v \in 0..MaxCount}

\* numbers typed on the command line: around zero, around the percentage
\* range, and around the ends of u8, u32 and i64
CliInputs ==
    [cluster_size : SmallTexts \cup
                    {Text(FALSE, <<0, 1>>),
                     Text(FALSE, <<4, 2, 9, 4, 9, 6, 7, 2, 9, 5>>),
                     Text(FALSE, <<4, 2, 9, 4, 9, 6, 7, 2, 9, 6>>),
                     Text(FALSE, <<9, 2, 2, 3, 3, 7, 2, 0, 3, 6, 8, 5, 4, 7, 7, 5, 8, 0, 8>>)},
     memory_percentage : {Text(TRUE, <<1>>), Text(FALSE, <<0>>), Text(FALSE, <<1>>),
                          Text(FALSE, <<1, 0, 0>>), Text(FALSE, <<1, 0, 1>>),
                          Text(FALSE, <<2, 5, 5>>), Text(FALSE, <<2, 5, 6>>)},
     cpus : SmallTexts]

CliInit ==
    /\ cliIn \in CliInputs
    /\ cliStage = "typed"
    /\ cliOut = CliNone

CliFrame == UNCHANGED <<crdVars, guardVars, validVars, lifeVars, manifestVars, ipVars>>

\* app.get_matches(): clap runs the validators and stops on an error
GetMatches ==
    /\ CliFrame
    /\ cliStage = "typed"
    /\ LET verdicts == ArgVerdicts(cliIn)
       IN  IF "panic" \in verdicts
           THEN cliStage' = "done" /\ cliOut' = CliPanic
           ELSE IF "err" \in verdicts
           THEN cliStage' = "done" /\ cliOut' = CliError
           ELSE cliStage' = "matched" /\ cliOut' = cliOut
    /\ UNCHANGED cliIn

\* the deploy branch of get_command
BuildCommand ==
    /\ CliFrame
    /\ cliStage = "matched"
    /\ cliOut' = get_command(cliIn)
    /\ cliStage' = "done"
    /\ UNCHANGED cliIn

CliNext ==
    \/ GetMatches
    \/ BuildCommand

InitCli == CliInit /\ CrdIdle /\ GuardIdle /\ ValidIdle /\ LifeIdle
              /\ ManifestIdle /\ IpIdle

SpecCli == InitCli /\ [][CliNext]_vars

\* the text spells zero
SpellsZero(t) == \A i \in DOMAIN t.digits : t.digits[i] = 0

\* the text spells a number of 1..100
SpellsPercentage(t) ==
    /\ ~t.neg /\ ~SpellsZero(t)
    /\ t.digits \in {<<a>> : a \in 1..9}
                    \cup {<<a, b>> : a \in 1..9, b \in 0..9} \cup {<<1, 0, 0>>}

\* the text spells a number of 1..2^32-1
SpellsNodeCount(t) ==
    /\ ~t.neg /\ ~SpellsZero(t)
    /\ t # Text(FALSE, <<4, 2, 9, 4, 9, 6, 7, 2, 9, 6>>)
    /\ Len(t.digits) <= 10

\* C11: among the requests whose node count is an unsigned 32-bit number, one
\* whose node count is zero, whose cpu count is zero or whose memory
\* percentage is outside 1..100 is rejected with an error, and one whose three
\* numbers are in range is accepted.
C11_NumericFieldsChecked ==
    (/\ cliStage = "done"
     /\ SpellsZero(cliIn.cluster_size) \/ SpellsNodeCount(cliIn.cluster_size)) =>
        /\ (\/ SpellsZero(cliIn.cluster_size)
            \/ SpellsZero(cliIn.cpus)
            \/ ~SpellsPercentage(cliIn.memory_percentage))
              => cliOut.kind = "error"
        /\ (/\ SpellsNodeCount(cliIn.cluster_size)
            /\ ~SpellsZero(cliIn.cpus)
            /\ SpellsPercentage(cliIn.memory_percentage))
              => cliOut.kind = "accepted"

(***************************************************************************)
(* Manifest generation: h2o_stateful_set and h2o_ingress.  A string is a   *)
(* sequence of atoms (pieces of text none of which is made of others), so  *)
(* that concatenation and substitution are computed and not assumed; a     *)
(* definition is the template's scalars by their place in the document.    *)
(***************************************************************************)
DigitChars == <<"0", "1", "2", "3", "4", "5", "6", "7", "8", "9">>

\* the characters of a number's text
Chars(t) == [i \in DOMAIN t.digits |-> DigitChars[t.digits[i] + 1]]

\* the digit a character stands for, 10 when it is no digit
DigitValue(c) ==
    IF \E v \in 0..9 : DigitChars[v + 1] = c
    THEN CHOOSE v \in 0..9 : DigitChars[v + 1] = c
    ELSE 10

\* str::replace on one string: every occurrence of the placeholder gives way
\* to the value
RECURSIVE ReplaceIn(_, _, _)
ReplaceIn(str, from, to) ==
    IF str = <<>> THEN <<>>
    ELSE IF Head(str) = from THEN to \o ReplaceIn(Tail(str), from, to)
    ELSE <<Head(str)>> \o ReplaceIn(Tail(str), from, to)

\* str::replace on a whole definition
replace(def, from, to) == [f \in DOMAIN def |-> ReplaceIn(def[f], from, to)]

\* a template whose requests carry a fixed memory
STATEFUL_SET_TEMPLATE_FixedRequests ==
    [name |-> <<"<name>", "-stateful-set">>,
     namespace |-> <<"<namespace>">>,
     serviceName |-> <<"h2o", "-service">>,
     replicas |-> <<"<nodes>">>,
     selector_app |-> <<"<name>">>,
     label_app |-> <<"<name>">>,
     container_name |-> <<"<name>">>,
     image |-> <<"<docker-img-name>", ":", "<docker-img-tag>">>,
     command |-> <<"java -XX:+UseContainerSupport -XX:MaxRAMPercentage=",
                  "<memory-percentage>", " -jar /opt/h2oai/h2o-3/h2o.jar">>,
     limits_cpu |-> <<"<num-cpu>">>,
     limits_memory |-> <<"<memory>">>,
     requests_cpu |-> <<"<num-cpu>">>,
     requests_memory |-> <<"1", "Gi">>,
     env_dns |-> <<"<name>", "-service", ".", "<namespace>", ".svc.cluster.local">>,
     env_lookup_timeout |-> <<"1", "8", "0">>,
     env_expected_count |-> <<"<nodes>">>,
     env_api_port |-> <<"8", "0", "8", "1">>]

\* STATEFUL_SET_TEMPLATE: the scalars of the document that hold a placeholder
\* or that the naming and the cluster assembly rest on
STATEFUL_SET_TEMPLATE ==
    [name |-> <<"<name>", "-stateful-set">>,
     namespace |-> <<"<namespace>">>,
     serviceName |-> <<"h2o", "-service">>,
     replicas |-> <<"<nodes>">>,
     selector_app |-> <<"<name>">>,
     label_app |-> <<"<name>">>,
     container_name |-> <<"<name>">>,
     image |-> <<"<docker-img-name>", ":", "<docker-img-tag>">>,
     command |-> <<"java -XX:+UseContainerSupport -XX:MaxRAMPercentage=",
                  "<memory-percentage>", " -jar /opt/h2oai/h2o-3/h2o.jar">>,
     limits_cpu |-> <<"<num-cpu>">>,
     limits_memory |-> <<"<memory>">>,
     requests_cpu |-> <<"<num-cpu>">>,
     requests_memory |-> <<"<memory>">>,
     env_dns |-> <<"<name>", "-service", ".", "<namespace>", ".svc.cluster.local">>,
     env_lookup_timeout |-> <<"1", "8", "0">>,
     env_expected_count |-> <<"<nodes>">>,
     env_api_port |-> <<"8", "0", "8", "1">>]

\* the chain of replace calls of h2o_stateful_set
stateful_set_definition(name, namespace, docker_img_name, docker_img_tag, nodes, memory_percentage, memory, num_cpu) ==
    LET d1 == replace(STATEFUL_SET_TEMPLATE, "<name>", name)
        d2 == replace(d1, "<namespace>", namespace)
        d3 == replace(d2, "<docker-img-name>", docker_img_name)
        d4 == replace(d3, "<docker-img-tag>", docker_img_tag)
        d5 == replace(d4, "<nodes>", Chars(to_string(nodes)))
        d6 == replace(d5, "<memory-percentage>", Chars(to_string(U(memory_percentage, 1))))
        d7 == replace(d6, "<memory>", memory)
    IN  replace(d7, "<num-cpu>", Chars(to_string(num_cpu)))

\* the reading of a plain scalar as an i32: decimal digits within the range
parse_i32(str) ==
    LET digits == [i \in DOMAIN str |-> DigitValue(str[i])]
        m == IF \A i \in DOMAIN digits : digits[i] < 10
             THEN ParseMagnitude(digits, 2)
             ELSE [ok |-> FALSE, limbs |-> Zeros(2)]
        fits == m.ok /\ m.limbs[2] < 2^15
    IN  [ok |-> fits,
         val |-> IF fits THEN m.limbs[2] * LimbBase + m.limbs[1] ELSE 0]

NoStatefulSet ==
    [kind |-> "none", name |-> <<>>, namespace |-> <<>>, serviceName |-> <<>>,
     replicas |-> 0, limits |-> [cpu |-> <<>>, memory |-> <<>>],
     requests |-> [cpu |-> <<>>, memory |-> <<>>],
     env_dns |-> <<>>, env_expected_count |-> <<>>]

\* serde_yaml::from_str(..).unwrap(): the StatefulSet of the definition; the
\* replica count is an i32, every other scalar kept here is a string
StatefulSet_from_str(def) ==
    LET replicas == parse_i32(def.replicas)
    IN  IF ~replicas.ok THEN [NoStatefulSet EXCEPT !.kind = "panic"]
        ELSE [kind |-> "ok", name |-> def.name, namespace |-> def.namespace,
              serviceName |-> def.serviceName, replicas |-> replicas.val,
              limits |-> [cpu |-> def.limits_cpu, memory |-> def.limits_memory],
              requests |-> [cpu |-> def.requests_cpu, memory |-> def.requests_memory],
              env_dns |-> def.env_dns,
              env_expected_count |-> def.env_expected_count]

\* INGRESS_TEMPLATE
INGRESS_TEMPLATE ==
    [name |-> <<"<name>", "-ingress">>,
     path |-> <<"/", "<name>">>,
     pathType |-> <<"Exact">>,
     backend_serviceName |-> <<"<name>", "-service">>,
     backend_servicePort |-> <<"8", "0">>]

\* the chain of replace calls of h2o_ingress
ingress_definition(name, namespace) ==
    replace(replace(INGRESS_TEMPLATE, "<name>", name), "<namespace>", namespace)

NoIngress ==
    [kind |-> "none", name |-> <<>>, paths |-> <<>>]

\* serde_yaml::from_str(..).unwrap(): the Ingress of the definition, one rule
\* with one path
Ingress_from_str(def) ==
    [kind |-> "ok", name |-> def.name,
     paths |-> <<[path |-> def.path, pathType |-> def.pathType,
                  serviceName |-> def.backend_serviceName]>>]

\* cluster names, memory quantities and node counts handed to the generator
Names == {<<"h2o">>, <<"h2o", "-test">>, <<"my", "-cluster">>}
Namespaces == {<<"default">>, <<"h2o", "-ns">>}
Memories == {<<"1", "Gi">>, <<"5", "1", "2", "Mi">>}
NodeCounts ==
    {U(v, 2) : v \in 1..MaxCount}
    \cup {<<2^16 - 1, 2^15 - 1>>, <<0, 2^15>>, <<2^16 - 1, 2^16 - 1>>}

ManifestInputs ==
    [name : Names, namespace : Namespaces, nodes : NodeCounts,
     memory_percentage : {50}, memory : Memories,
     num_cpu : {U(v, 2) : v \in 0..MaxCount}]

ManifestInit ==
    /\ mIn \in ManifestInputs
    /\ mStage = "input"
    /\ mDef = STATEFUL_SET_TEMPLATE
    /\ stsOut = NoStatefulSet
    /\ ingDef = INGRESS_TEMPLATE
    /\ ingOut = NoIngress

ManifestFrame == UNCHANGED <<crdVars, guardVars, validVars, lifeVars, cliVars, ipVars>>

\* h2o_stateful_set, lines 55-62: the definition
SubstituteStatefulSet ==
    /\ ManifestFrame
    /\ mStage = "input"
    /\ mDef' = stateful_set_definition(mIn.name, mIn.namespace,
                   <<"h2oai/h2o-open-source-k8s">>, <<"latest">>, mIn.nodes,
                   mIn.memory_percentage, mIn.memory, mIn.num_cpu)
    /\ mStage' = "substituted"
    /\ UNCHANGED <<mIn, stsOut, ingDef, ingOut>>

\* h2o_stateful_set, lines 64-65: the StatefulSet or the panic of unwrap
ParseStatefulSet ==
    /\ ManifestFrame
    /\ mStage = "substituted"
    /\ stsOut' = StatefulSet_from_str(mDef)
    /\ mStage' = "parsed"
    /\ UNCHANGED <<mIn, mDef, ingDef, ingOut>>

\* h2o_ingress
CallIngress ==
    /\ ManifestFrame
    /\ mStage # "idle"
    /\ ingOut.kind = "none"
    /\ ingDef' = ingress_definition(mIn.name, mIn.namespace)
    /\ ingOut' = Ingress_from_str(ingDef')
    /\ UNCHANGED <<mIn, mStage, mDef, stsOut>>

ManifestNext ==
    \/ SubstituteStatefulSet
    \/ ParseStatefulSet
    \/ CallIngress

InitManifest == ManifestInit /\ CrdIdle /\ GuardIdle /\ ValidIdle /\ LifeIdle
                   /\ CliIdle /\ IpIdle

SpecManifest == InitManifest /\ [][ManifestNext]_vars

\* the number a resource quantity's characters spell, as a u32
SpelledCount(str) == ParseMagnitude([i \in DOMAIN str |-> DigitValue(str[i])], 2)

\* C12: in a StatefulSet that h2o_stateful_set returns, the limits are the
\* requests, their cpu spells the given cpu count and their memory is the
\* given memory quantity.
C12_LimitsEqualRequests ==
    stsOut.kind = "ok" =>
        /\ stsOut.limits = stsOut.requests
        /\ SpelledCount(stsOut.limits.cpu).limbs = mIn.num_cpu
        /\ SpelledCount(stsOut.requests.cpu).limbs = mIn.num_cpu
        /\ stsOut.limits.memory = mIn.memory
        /\ stsOut.requests.memory = mIn.memory

\* a StatefulSet returned for two cpus and a memory other than 1Gi
C12_Witness ==
    /\ stsOut.kind = "ok"
    /\ mIn.num_cpu = U(2, 2)
    /\ mIn.memory = <<"5", "1", "2", "Mi">>
    /\ stsOut.requests.memory = <<"5", "1", "2", "Mi">>

\* C13: for every node count of 1..2^32-1, h2o_stateful_set returns a
\* StatefulSet whose replica count is the node count and whose
\* H2O_NODE_EXPECTED_COUNT is the decimal text of the node count.
C13_ReplicasForEveryNodeCount ==
    mStage = "parsed" =>
        /\ stsOut.kind = "ok"
        /\ U(stsOut.replicas % LimbBase, 1) \o U(stsOut.replicas \div LimbBase, 1)
              = mIn.nodes
        /\ stsOut.env_expected_count = Chars(to_string(mIn.nodes))

\* C14: the StatefulSet is named <name>-stateful-set, the Ingress is named
\* <name>-ingress and has the single exact path /<name>, and the governing
\* service of the StatefulSet, the discovery DNS entry and the backend of the
\* Ingress all name <name>-service.
C14_NamingConvention ==
    (stsOut.kind = "ok" /\ ingOut.kind = "ok") =>
        LET service == mIn.name \o <<"-service">>
        IN  /\ stsOut.name = mIn.name \o <<"-stateful-set">>
            /\ ingOut.name = mIn.name \o <<"-ingress">>
            /\ Len(ingOut.paths) = 1
            /\ ingOut.paths[1].path = <<"/">> \o mIn.name
            /\ ingOut.paths[1].pathType = <<"Exact">>
            /\ ingOut.paths[1].serviceName = service
            /\ SubSeq(stsOut.env_dns, 1, Len(service)) = service
            /\ stsOut.serviceName = service

(***************************************************************************)
(* any_ip: the address read off an Ingress' load-balancer status.          *)
(***************************************************************************)
\* Option<String> of a LoadBalancerIngress field
NoText == [some |-> FALSE, val |-> ""]
SomeText(v) == [some |-> TRUE, val |-> v]

\* an Ingress as any_ip reads it: status, load_balancer and ingress are
\* options, the list holds LoadBalancerIngress entries
IngressOf(some, lbSome, listSome, list) ==
    [some |-> some, lbSome |-> lbSome, listSome |-> listSome, list |-> list]

\* slice::last
last(list) ==
    IF list = <<>> THEN [some |-> FALSE, item |-> [ip |-> NoText, hostname |-> NoText]]
    ELSE [some |-> TRUE, item |-> list[Len(list)]]

NoIp == [called |-> TRUE, some |-> FALSE, ip |-> ""]

\* any_ip: each ? returns None, the IP is that of the last entry
any_ip(ing) ==
    IF ~ing.some THEN NoIp
    ELSE IF ~ing.lbSome THEN NoIp
    ELSE IF ~ing.listSome THEN NoIp
    ELSE IF ~last(ing.list).some THEN NoIp
    ELSE [called |-> TRUE, some |-> last(ing.list).item.ip.some,
          ip |-> last(ing.list).item.ip.val]

Ips == {NoText, SomeText("10.0.0.1"), SomeText("10.0.0.2"), SomeText("10.0.0.3")}
Hostnames == {NoText, SomeText("lb.example.com")}
LbEntries == [ip : Ips, hostname : Hostnames]

RECURSIVE EntryLists(_)
EntryLists(n) ==
    IF n = 0 THEN {<<>>}
    ELSE EntryLists(n - 1)
         \cup {Append(l, e) : l \in {k \in EntryLists(n - 1) : Len(k) = n - 1},
                              e \in LbEntries}

IpInputs ==
    {IngressOf(FALSE, FALSE, FALSE, <<>>), IngressOf(TRUE, FALSE, FALSE, <<>>),
     IngressOf(TRUE, TRUE, FALSE, <<>>)}
    \cup {IngressOf(TRUE, TRUE, TRUE, l) : l \in EntryLists(MaxEntries)}

IpInit ==
    /\ ipIn \in IpInputs
    /\ ipOut = [called |-> FALSE, some |-> FALSE, ip |-> ""]

IpFrame == UNCHANGED <<crdVars, guardVars, validVars, lifeVars, cliVars, manifestVars>>

CallAnyIp ==
    /\ IpFrame
    /\ ~ipOut.called
    /\ ipOut' = any_ip(ipIn)
    /\ UNCHANGED ipIn

IpNext == CallAnyIp

InitIp == IpInit /\ CrdIdle /\ GuardIdle /\ ValidIdle /\ LifeIdle /\ CliIdle
             /\ ManifestIdle

SpecIp == InitIp /\ [][IpNext]_vars

\* the places of the list whose entry carries an IP
Carrying(ing) ==
    IF ing.some /\ ing.lbSome /\ ing.listSome
    THEN {i \in DOMAIN ing.list : ing.list[i].ip.some}
    ELSE {}

\* C15: any_ip returns the IP of the first entry of the list that carries one,
\* and None only when the status, the load balancer or the list is absent or
\* no entry carries an IP.
C15_FirstIpFound ==
    ipOut.called =>
        IF Carrying(ipIn) = {}
        THEN ~ipOut.some
        ELSE LET first == CHOOSE i \in Carrying(ipIn) : \A j \in Carrying(ipIn) : i <= j
             IN  ipOut.some /\ ipOut.ip = ipIn.list[first].ip.val

====
